---- MODULE Spec2Model ----
(***************************************************************************)
(* Model of Yupoo.py: a two-level paginated crawl (category pages ->       *)
(* albums, album pages -> images) whose image downloads run in a pool of   *)
(* worker threads, each with its own retry loop.                           *)
(*                                                                         *)
(* Strings are sequences of one-character strings.  A remote document is   *)
(* what the parser reads from it.  A server is described by how it answers *)
(* a URL; the answer to every page fetch is chosen when the fetch is made. *)
(***************************************************************************)
EXTENDS Bags, FiniteSets, Integers, Sequences, TLC

VARIABLES
    pc,             \* position of download_images_from_yupoo_main
    input,          \* what input.csv is: "missing", "nocolumn" or "rows"
    links,          \* the seed links read from the input table
    seed,           \* index in links of the seed being processed
    base_folder,    \* folder of the current category
    cat_total,      \* total_pages of the current category
    cat_page,       \* page of the category loop
    albums,         \* album anchors of the current category page
    album,          \* index in albums of the album being processed
    link,           \* link of the current album
    album_folder,   \* folder of the current album
    alb_total,      \* total_pages of the current album
    page,           \* page of the album loop
    image_details,  \* (url, path) tuples of the current album page
    detail_titles,  \* title attribute of the card behind each tuple
    queue,          \* work queue of the executor: tuples not yet taken
    running,        \* bag of download_image activations in worker threads,
                    \* each with the timeout of its session.get calls
    ended,          \* bag of download_image activations that returned
    files,          \* file system: path -> content (sequence of chunks)
    handed,         \* bag of destination paths handed to download_image
    lastReq,        \* the document fetch of the orchestrator's latest step
    served,         \* image cards served by the site so far
    summary,        \* the final summary line was printed
    cat_fetches,    \* page requests issued for the current category
    alb_fetches,    \* page requests issued for the current album
    naming          \* one application of the naming functions: its inputs
                    \* and what they returned

vars == << pc, input, links, seed, base_folder, cat_total, cat_page, albums,
           album, link, album_folder, alb_total, page, image_details, detail_titles,
           queue, running, ended, files, handed, lastReq, served,
           summary, cat_fetches, alb_fetches, naming >>

----------------------------------------------------------------------------
(* Bounds of the model *)

MaxSeeds == 2       \* rows of the input table
MaxPages == 2       \* largest page count a pagination marker holds
MaxAlbums == 2      \* album anchors on one category page
MaxCards == 2       \* image cards on one album page
MaxServed == 2      \* image cards the site serves in one run

----------------------------------------------------------------------------
(* Program constants *)

retries == 3            \* download_image: attempts per item
max_workers == 8        \* ThreadPoolExecutor(max_workers=8)
image_timeout == 120    \* download_image: timeout of session.get
retry_total == 5        \* Retry(total=5)
NoTimeout == 0          \* session.get without a timeout argument

----------------------------------------------------------------------------
(* Strings *)

Digit == << "0", "1", "2", "3", "4", "5", "6", "7", "8", "9" >>

Letters == { "a", "b", "C", "U", "n", "k", "o", "w", "t", "e", "g", "r", "y",
             "i", "l", "d", "I", "m", "s", "j", "p" }

IsAlnum(c) == c \in Letters \/ \E i \in DOMAIN Digit : Digit[i] = c

IsSpace(c) == c \in { " ", "\t", "\n" }

RECURSIVE LStrip(_)
LStrip(s) ==
    IF s # << >> /\ IsSpace(Head(s)) THEN LStrip(Tail(s)) ELSE s

RECURSIVE RStrip(_)
RStrip(s) ==
    IF s # << >> /\ IsSpace(s[Len(s)])
    THEN RStrip(SubSeq(s, 1, Len(s) - 1))
    ELSE s

\* A trim that drops one whitespace character at each end and no more
Strip_once(s) ==
    LET l == IF s # << >> /\ IsSpace(Head(s)) THEN Tail(s) ELSE s IN
    IF l # << >> /\ IsSpace(l[Len(l)]) THEN SubSeq(l, 1, Len(l) - 1) ELSE l

\* str.strip(): leading and trailing whitespace removed
Strip(s) == RStrip(LStrip(s))

\* str(n) for n >= 0
RECURSIVE Str(_)
Str(n) ==
    IF n < 10 THEN << Digit[n + 1] >> ELSE Str(n \div 10) \o << Digit[(n % 10) + 1] >>

SanitizeChar(c) == IF IsAlnum(c) \/ c \in { " ", "_" } THEN c ELSE "_"

sanitize_folder_name(name) ==
    Strip([i \in DOMAIN name |-> SanitizeChar(name[i])])

\* os.path.join(folder, name): an empty name adds no component
PathJoin(folder, name) == IF name = << >> THEN folder ELSE Append(folder, name)

Images == << "I", "m", "a", "g", "e", "s" >>
UnknownCategory ==
    << "U", "n", "k", "n", "o", "w", "n", "_", "C", "a", "t", "e", "g", "o", "r", "y" >>
Untitled == << "U", "n", "t", "i", "t", "l", "e", "d" >>
DotJpg == << ".", "j", "p", "g" >>

----------------------------------------------------------------------------
(* The remote site: what a fetch can return *)

\* How a server answers a URL: a full 200 body, a 200 body that breaks off
\* mid-stream (always, or on the first request only), a 404, a 503 on every
\* request, or no answer at all.
PageAnswers == { "ok", "e404", "e503", "silent" }

Https == << "h", "t", "t", "p", "s", ":" >>
Http == << "h", "t", "t", "p", ":" >>
Slashes == << "/", "/" >>

\* Seed rows of the input table: a category URL (here with a trailing
\* space), or a row that is no https:// URL.
SeedUrls == { Https \o Slashes \o << "h", "/", "c", " " >>, << "h", "/", "c" >> }

SeqsUpTo(S, n) == UNION { [1..k -> S] : k \in 0..n }

\* Pagination control of a document: the form, the marker span in it, and
\* the number the marker holds.
Paginations ==
    { [form |-> FALSE, span |-> FALSE, n |-> 0],
      [form |-> TRUE, span |-> FALSE, n |-> 0] }
    \cup { [form |-> TRUE, span |-> TRUE, n |-> k] : k \in 0..MaxPages }

\* Breadcrumb of a category page: the crumbs div, the titled link in it, and
\* the link's title.
Crumbs ==
    { [div |-> FALSE, link |-> FALSE, title |-> << >>],
      [div |-> TRUE, link |-> FALSE, title |-> << >>],
      [div |-> TRUE, link |-> TRUE, title |-> << "a", "/", "b" >>],
      [div |-> TRUE, link |-> TRUE, title |-> << " ", "a", "_", "b" >>] }

\* Album anchors: title attribute (possibly absent) and href (possibly
\* absent, relative or absolute).
AlbumAnchors ==
    { [hasTitle |-> TRUE, title |-> << "a", "/", "b" >>, hasHref |-> TRUE,
       href |-> << "/", "x" >>],
      [hasTitle |-> TRUE, title |-> << "a", "_", "b", " " >>, hasHref |-> TRUE,
       href |-> Https \o Slashes \o << "h", "/", "y" >>],
      [hasTitle |-> FALSE, title |-> << >>, hasHref |-> TRUE,
       href |-> << "/", "x" >>],
      [hasTitle |-> TRUE, title |-> << "a" >>, hasHref |-> FALSE, href |-> << >>] }

\* Image hosts, named after the way they answer: "o" a full 200 body, "c" a
\* body that always breaks off, "f" a body that breaks off on the first
\* request only, "n" a 404, "u" a 503 on every request, "s" no answer.
ImageServer(host) ==
    CASE host = "o" -> "ok"
      [] host = "c" -> "cut"
      [] host = "f" -> "cutonce"
      [] host = "n" -> "e404"
      [] host = "u" -> "e503"
      [] OTHER -> "silent"

\* Image URLs: scheme-relative (//host), https and http
ImageUrls ==
    { Slashes \o << "o" >>,
      Https \o Slashes \o << "c" >>,
      Https \o Slashes \o << "f" >>,
      Https \o Slashes \o << "n" >>,
      Slashes \o << "u" >>,
      Http \o Slashes \o << "u" >>,
      Https \o Slashes \o << "s" >> }

ImageTitles == { << "a" >>, << " ", "a" >>, << "a", " " >> }

\* Image cards: the img tag with data-origin-src and the h3 tag with title,
\* either of which may be missing.
BrokenCards ==
    { [img |-> FALSE, h3 |-> TRUE, src |-> << >>, title |-> << "a" >>],
      [img |-> TRUE, h3 |-> FALSE, src |-> Slashes \o << "o" >>, title |-> << >>] }

AllCards ==
    { [img |-> TRUE, h3 |-> TRUE, src |-> u, title |-> t] :
        u \in ImageUrls, t \in ImageTitles }
    \cup BrokenCards

\* The cards the site of a whole run serves
ImageCards ==
    { [img |-> TRUE, h3 |-> TRUE, src |-> Slashes \o << "o" >>, title |-> << "a" >>],
      [img |-> TRUE, h3 |-> TRUE, src |-> Https \o Slashes \o << "c" >>,
       title |-> << "a" >>],
      [img |-> TRUE, h3 |-> FALSE, src |-> Slashes \o << "o" >>, title |-> << >>] }

----------------------------------------------------------------------------
(* Page parser *)

get_category_title(soup) ==
    IF soup.div /\ soup.link THEN Strip(soup.title) ELSE UnknownCategory

get_total_pages(soup) ==
    IF soup.form /\ soup.span THEN soup.n ELSE 1

----------------------------------------------------------------------------
(* HTTP client *)

StartsWith(s, prefix) ==
    Len(s) >= Len(prefix) /\ SubSeq(s, 1, Len(prefix)) = prefix

UrlScheme(url) ==
    IF StartsWith(url, Https \o Slashes) THEN "https"
    ELSE IF StartsWith(url, Http \o Slashes) THEN "http"
    ELSE ""

\* Retries the adapter mounted on the session makes for a URL of this scheme
\* An adapter configured with one retry more
MountedRetries_more(scheme) == IF scheme = "https" THEN retry_total + 1 ELSE 0

MountedRetries(scheme) == IF scheme = "https" THEN retry_total ELSE 0

\* One session.get(url, timeout=timeout), raise_for_status included, against
\* a server that answers the URL as `answer`: whether it returned a 200
\* response, how many HTTP requests it made, whether it never returns.
SessionGet(scheme, answer, timeout) ==
    IF scheme \notin { "http", "https" }
    THEN [ok |-> FALSE, http |-> 0, blocked |-> FALSE]
    ELSE CASE answer \in { "ok", "cut", "cutonce" } ->
                [ok |-> TRUE, http |-> 1, blocked |-> FALSE]
           [] answer = "e404" ->
                [ok |-> FALSE, http |-> 1, blocked |-> FALSE]
           [] answer = "e503" ->
                [ok |-> FALSE, http |-> MountedRetries(scheme) + 1, blocked |-> FALSE]
           [] answer = "silent" ->
                IF timeout = NoTimeout
                THEN [ok |-> FALSE, http |-> 1, blocked |-> TRUE]
                ELSE [ok |-> FALSE, http |-> MountedRetries(scheme) + 1,
                      blocked |-> FALSE]

\* Body of the image behind a URL, in chunks
Body(url) == << << url, 1 >>, << url, 2 >> >>

\* Chunks iter_content yields on the given attempt before the stream ends or
\* breaks, and whether it ended normally
Streamed(url, attempt) ==
    IF ImageServer(url[Len(url)]) = "cut"
       \/ (ImageServer(url[Len(url)]) = "cutonce" /\ attempt = 0)
    THEN [chunks |-> SubSeq(Body(url), 1, 1), complete |-> FALSE]
    ELSE [chunks |-> Body(url), complete |-> TRUE]

----------------------------------------------------------------------------
(* File system *)

Exists(path) == path \in DOMAIN files

\* open(path, "wb"): the file is created or truncated
OpenWb(fs, path) == [p \in DOMAIN fs \cup { path } |-> IF p = path THEN << >> ELSE fs[p]]

\* writes of `chunks` from offset 0 through a handle on an existing file
WriteAll(fs, path, chunks) ==
    [fs EXCEPT ![path] = chunks \o SubSeq(@, Len(chunks) + 1, Len(@))]

----------------------------------------------------------------------------
(* Naming and request URLs *)

\* re.match(r"https://[^/]+", base_url): whether it matches
HasDomain(base_url) ==
    /\ StartsWith(base_url, Https \o Slashes)
    /\ Len(base_url) > Len(Https \o Slashes)
    /\ base_url[Len(Https \o Slashes) + 1] # "/"

\* .group(0) of the match: the URL up to the first "/" after the host
RECURSIVE UpToSlash(_)
UpToSlash(s) ==
    IF s = << >> \/ Head(s) = "/" THEN << >> ELSE << Head(s) >> \o UpToSlash(Tail(s))

base_domain(base_url) ==
    Https \o Slashes
    \o UpToSlash(SubSeq(base_url, Len(Https \o Slashes) + 1, Len(base_url)))

PageParam == << "p", "a", "g", "e", "=" >>

\* A page URL that carries the page parameter from the second page on
CategoryPageUrl_bare_first(base_url, n) ==
    IF n = 1 THEN base_url ELSE base_url \o << "?" >> \o PageParam \o Str(n)

CategoryPageUrl(base_url, n) == base_url \o << "?" >> \o PageParam \o Str(n)

AlbumPageUrl(album_link, n) == album_link \o << "&" >> \o PageParam \o Str(n)

AlbumTitle(anchor) == Strip(IF anchor.hasTitle THEN anchor.title ELSE Untitled)

AlbumLink(anchor, base_url) ==
    IF StartsWith(anchor.href, << "/" >>)
    THEN base_domain(base_url) \o anchor.href
    ELSE anchor.href

BaseFolder(category_title) ==
    PathJoin(<< Images >>, sanitize_folder_name(category_title))

AlbumFolder(folder, album_title) ==
    PathJoin(folder, sanitize_folder_name(album_title))

\* An image URL passed on as the card gives it
ImageUrl_asis(src) == src

ImageUrl(src) == IF StartsWith(src, Slashes) THEN Https \o src ELSE src

\* A file name whose title is sanitised before the page prefix is put in front
ImageName_title_only(n, title) ==
    Str(n) \o << "_" >> \o sanitize_folder_name(title) \o DotJpg

\* A file name without the page prefix
ImageName_no_page(n, title) == sanitize_folder_name(title) \o DotJpg

ImageName(n, title) == sanitize_folder_name(Str(n) \o << "_" >> \o title) \o DotJpg

\* The cards of a page that carry both the img and the h3 tag
RECURSIVE ValidCards(_)
ValidCards(cards) ==
    IF cards = << >> THEN << >>
    ELSE (IF Head(cards).img /\ Head(cards).h3 THEN << Head(cards) >> ELSE << >>)
         \o ValidCards(Tail(cards))

ImageDetails(cards, n, folder) ==
    [i \in DOMAIN ValidCards(cards) |->
        [url |-> ImageUrl(ValidCards(cards)[i].src),
         path |-> PathJoin(folder, ImageName(n, ValidCards(cards)[i].title))]]

\* Bag of the elements of a sequence
RECURSIVE SeqToBag(_)
SeqToBag(s) ==
    IF s = << >> THEN EmptyBag ELSE SetToBag({ Head(s) }) (+) SeqToBag(Tail(s))

Min(a, b) == IF a < b THEN a ELSE b

----------------------------------------------------------------------------
(* Requests *)

NoReq == [kind |-> "none", url |-> << >>, timeout |-> NoTimeout, http |-> 0,
          result |-> "none"]

\* Timeout the orchestrator passes to session.get for a document
PageTimeout == NoTimeout

Request(kind, url, timeout, r) ==
    [kind |-> kind, url |-> url, timeout |-> timeout, http |-> r.http,
     result |-> IF r.blocked THEN "blocked" ELSE IF r.ok THEN "ok" ELSE "failed"]

\* A page loop that takes the document of the first fetch for page 1 and
\* starts fetching at the second page
FirstPage_second == 1 + 1

\* Lines 73 and 147: range(1, total_pages + 1) starts at page 1
FirstPage == 1

----------------------------------------------------------------------------
(* Inputs of the naming functions *)

MaxLen == 3         \* longest title the naming functions are applied to
MaxShort == 2       \* longest title that is named on every page number
MaxPageNo == 11     \* largest page number put in front of an image title

\* Characters of a title: a letter, a digit, the underscore, the space,
\* another whitespace character and a character no folder name keeps
NameChars == { "a", "1", "_", " ", "\t", "/" }

Names == SeqsUpTo(NameChars, MaxLen)
ShortNames == SeqsUpTo(NameChars, MaxShort)

PlainCard ==
    [img |-> TRUE, h3 |-> TRUE, src |-> Slashes \o << "o" >>, title |-> << "a" >>]
NoCrumb == [div |-> FALSE, link |-> FALSE, title |-> << >>]
PlainAnchor ==
    [hasTitle |-> TRUE, title |-> << "a", "/", "b" >>, hasHref |-> TRUE,
     href |-> << "/", "x" >>]

\* One image card on page `page` of an album under a category: every title
\* on the first page, every short title on every page, every image URL,
\* every pair of folder titles
NamingInputs ==
    { [card |-> [PlainCard EXCEPT !.title = t], page |-> FirstPage,
       crumb |-> NoCrumb, anchor |-> PlainAnchor] : t \in Names }
    \cup { [card |-> [PlainCard EXCEPT !.title = t], page |-> p, crumb |-> NoCrumb,
            anchor |-> PlainAnchor] : t \in ShortNames, p \in 1..MaxPageNo }
    \cup { [card |-> [PlainCard EXCEPT !.src = u], page |-> 1, crumb |-> NoCrumb,
            anchor |-> PlainAnchor] : u \in ImageUrls }
    \cup { [card |-> PlainCard, page |-> 1, crumb |-> c, anchor |-> a] :
            c \in Crumbs, a \in { k \in AlbumAnchors : k.hasHref } }

\* No naming function has been applied
NoNaming == [step |-> "none"]

----------------------------------------------------------------------------
(* Initial state: before input.csv is opened *)

Init ==
    /\ pc = "load"
    /\ input \in { "missing", "nocolumn", "rows" }
    /\ links = << >>
    /\ seed = 1
    /\ base_folder = << >>
    /\ cat_total = 0
    /\ cat_page = 1
    /\ albums = << >>
    /\ album = 1
    /\ link = << >>
    /\ album_folder = << >>
    /\ alb_total = 0
    /\ page = 1
    /\ image_details = << >>
    /\ detail_titles = << >>
    /\ queue = << >>
    /\ running = EmptyBag
    /\ ended = EmptyBag
    /\ files = << >>
    /\ handed = EmptyBag
    /\ lastReq = NoReq
    /\ served = 0
    /\ summary = FALSE
    /\ cat_fetches = 0
    /\ alb_fetches = 0
    /\ naming = NoNaming

crawl == << seed, base_folder, cat_total, cat_page, albums, album, link,
            album_folder, alb_total, page >>
pool == << image_details, detail_titles, queue, running, ended >>
fetches == << cat_fetches, alb_fetches >>

----------------------------------------------------------------------------
(* download_images_from_yupoo_main *)

\* Lines 111-125: read the URL column of input.csv
LoadInput ==
    /\ pc = "load"
    /\ \/ /\ input = "missing"
          /\ pc' = "returned"
          /\ links' = links
       \/ /\ input = "nocolumn"
          /\ pc' = "seed"
          /\ links' = << >>
       \/ /\ input = "rows"
          /\ pc' = "seed"
          /\ links' \in SeqsUpTo(SeedUrls, MaxSeeds)
    /\ UNCHANGED << input, crawl, pool, files, handed, lastReq, served, summary,
                    fetches, naming >>

\* Lines 127-145: one seed: its first page, page count, title and folder
FetchSeed ==
    /\ pc = "seed"
    /\ seed <= Len(links)
    /\ LET base_url == Strip(links[seed]) IN
       IF ~HasDomain(base_url)
       THEN /\ pc' = "crashed"
            /\ lastReq' = NoReq
            /\ UNCHANGED << crawl, cat_fetches >>
       ELSE \E answer \in PageAnswers :
              LET r == SessionGet(UrlScheme(base_url), answer, PageTimeout) IN
              /\ lastReq' = Request("seed", base_url, PageTimeout, r)
              /\ cat_fetches' = IF r.ok THEN 1 ELSE 0
              /\ IF r.blocked
                 THEN pc' = "blocked" /\ UNCHANGED crawl
                 ELSE IF ~r.ok
                 THEN /\ pc' = "seed"
                      /\ seed' = seed + 1
                      /\ UNCHANGED << base_folder, cat_total, cat_page, albums,
                                      album, link, album_folder, alb_total, page >>
                 ELSE \E pag \in Paginations, crumb \in Crumbs :
                      /\ pc' = "cat_page"
                      /\ cat_total' = get_total_pages(pag)
                      /\ base_folder' = BaseFolder(get_category_title(crumb))
                      /\ cat_page' = FirstPage
                      /\ UNCHANGED << seed, albums, album, link, album_folder,
                                      alb_total, page >>
    /\ UNCHANGED << input, links, pool, files, handed, served, summary,
                    alb_fetches, naming >>

\* Line 171: the loop over the seeds is over
Finish ==
    /\ pc = "seed"
    /\ seed > Len(links)
    /\ pc' = "done"
    /\ summary' = TRUE
    /\ lastReq' = NoReq
    /\ UNCHANGED << input, links, crawl, pool, files, handed, served, fetches,
                    naming >>

\* Lines 147-161: one category page and its album anchors
FetchCategoryPage ==
    /\ pc = "cat_page"
    /\ cat_page <= cat_total
    /\ \E answer \in PageAnswers :
         LET url == CategoryPageUrl(Strip(links[seed]), cat_page)
             r == SessionGet(UrlScheme(url), answer, PageTimeout) IN
         /\ lastReq' = Request("cat_page", url, PageTimeout, r)
         /\ cat_fetches' = cat_fetches + 1
         /\ IF r.blocked
            THEN pc' = "blocked" /\ UNCHANGED << cat_page, albums, album >>
            ELSE IF ~r.ok
            THEN /\ pc' = "cat_page"
                 /\ cat_page' = cat_page + 1
                 /\ UNCHANGED << albums, album >>
            ELSE \E anchors \in SeqsUpTo(AlbumAnchors, MaxAlbums) :
                 IF anchors = << >>
                 THEN /\ pc' = "cat_page"
                      /\ cat_page' = cat_page + 1
                      /\ UNCHANGED << albums, album >>
                 ELSE /\ pc' = "album"
                      /\ albums' = anchors
                      /\ album' = 1
                      /\ UNCHANGED cat_page
    /\ UNCHANGED << input, links, seed, base_folder, cat_total, link,
                    album_folder, alb_total, page, pool, files, handed, served,
                    summary, alb_fetches, naming >>

\* Line 147: the loop over the category pages is over
CategoryDone ==
    /\ pc = "cat_page"
    /\ cat_page > cat_total
    /\ pc' = "seed"
    /\ seed' = seed + 1
    /\ base_folder' = << >>
    /\ cat_total' = 0
    /\ cat_page' = 1
    /\ lastReq' = NoReq
    /\ cat_fetches' = 0
    /\ UNCHANGED << input, links, albums, album, link, album_folder, alb_total,
                    page, pool, files, handed, served, summary, alb_fetches,
                    naming >>

\* Lines 163-169 and 57-71: one album anchor: its title, link, folder and
\* metadata fetch
FetchAlbum ==
    /\ pc = "album"
    /\ album <= Len(albums)
    /\ LET anchor == albums[album] IN
       IF ~anchor.hasHref
       THEN /\ pc' = "crashed"
            /\ lastReq' = NoReq
            /\ UNCHANGED << link, album_folder, alb_total, page, album,
                            alb_fetches >>
       ELSE \E answer \in PageAnswers :
              LET url == AlbumLink(anchor, Strip(links[seed]))
                  r == SessionGet(UrlScheme(url), answer, PageTimeout) IN
              /\ lastReq' = Request("album", url, PageTimeout, r)
              /\ alb_fetches' = IF r.ok THEN 1 ELSE 0
              /\ IF r.blocked
                 THEN /\ pc' = "blocked"
                      /\ link' = url
                      /\ album_folder' = AlbumFolder(base_folder, AlbumTitle(anchor))
                      /\ UNCHANGED << alb_total, page, album >>
                 ELSE IF ~r.ok
                 THEN /\ pc' = "album"
                      /\ album' = album + 1
                      /\ UNCHANGED << link, album_folder, alb_total, page >>
                 ELSE \E pag \in Paginations :
                      /\ pc' = "album_page"
                      /\ link' = url
                      /\ album_folder' = AlbumFolder(base_folder, AlbumTitle(anchor))
                      /\ alb_total' = get_total_pages(pag)
                      /\ page' = FirstPage
                      /\ UNCHANGED album
    /\ UNCHANGED << input, links, seed, base_folder, cat_total, cat_page,
                    albums, pool, files, handed, served, summary, cat_fetches,
                    naming >>

\* Line 163: the loop over the album anchors is over
AlbumsDone ==
    /\ pc = "album"
    /\ album > Len(albums)
    /\ pc' = "cat_page"
    /\ cat_page' = cat_page + 1
    /\ albums' = << >>
    /\ album' = 1
    /\ lastReq' = NoReq
    /\ UNCHANGED << input, links, seed, base_folder, cat_total, link,
                    album_folder, alb_total, page, pool, files, handed, served,
                    summary, fetches, naming >>

----------------------------------------------------------------------------
(* download_images_from_album: the page loop *)

\* The page loop with an item's failure raised out of the executor
NextAlbumPage_raise ==
    IF \E e \in BagToSet(ended) : e.result = "skipped"
    THEN pc' = "crashed" /\ page' = page
    ELSE pc' = "album_page" /\ page' = page + 1

\* The page loop with break in the place of continue
NextAlbumPage_break ==
    /\ pc' = "album_page"
    /\ page' = IF lastReq'.result = "failed" THEN alb_total + 1 ELSE page + 1

\* Next iteration of the album's page loop
NextAlbumPage ==
    /\ pc' = "album_page"
    /\ page' = page + 1

\* Lines 73-106: one album page: fetch, image cards, (url, path) tuples,
\* and the submission of every tuple to a new executor
FetchAlbumPage ==
    /\ pc = "album_page"
    /\ page <= alb_total
    /\ \E answer \in PageAnswers :
         LET url == AlbumPageUrl(link, page)
             r == SessionGet(UrlScheme(url), answer, PageTimeout) IN
         /\ lastReq' = Request("album_page", url, PageTimeout, r)
         /\ alb_fetches' = alb_fetches + 1
         /\ IF r.blocked
            THEN pc' = "blocked" /\ UNCHANGED << page, pool, handed, served >>
            ELSE IF ~r.ok
            THEN NextAlbumPage /\ UNCHANGED << pool, handed, served >>
            ELSE \E image_cards \in
                        SeqsUpTo(ImageCards, Min(MaxCards, MaxServed - served)) :
                 IF image_cards = << >>
                 THEN NextAlbumPage /\ UNCHANGED << pool, handed, served >>
                 ELSE LET details == ImageDetails(image_cards, page, album_folder) IN
                      /\ pc' = "pool"
                      /\ image_details' = details
                      /\ detail_titles' =
                            [i \in DOMAIN details |-> ValidCards(image_cards)[i].title]
                      /\ queue' = details
                      /\ handed' = handed (+) SeqToBag([i \in DOMAIN details |-> details[i].path])
                      /\ served' = served + Len(image_cards)
                      /\ UNCHANGED << page, running, ended >>
    /\ UNCHANGED << input, links, seed, base_folder, cat_total, cat_page,
                    albums, album, link, album_folder, alb_total, files, summary,
                    cat_fetches, naming >>

\* Line 108: the loop over the album's pages is over
AlbumDone ==
    /\ pc = "album_page"
    /\ page > alb_total
    /\ pc' = "album"
    /\ album' = album + 1
    /\ link' = << >>
    /\ album_folder' = << >>
    /\ alb_total' = 0
    /\ page' = 1
    /\ lastReq' = NoReq
    /\ alb_fetches' = 0
    /\ UNCHANGED << input, links, seed, base_folder, cat_total, cat_page,
                    albums, pool, files, handed, served, summary, cat_fetches,
                    naming >>

----------------------------------------------------------------------------
(* The executor and download_image *)

\* An executor that starts a thread for every tuple
WorkerFree_unbounded == TRUE

\* A worker thread is free to take the next tuple of the queue
WorkerFree == BagCardinality(running) < max_workers

\* A worker thread takes the next tuple and enters download_image
TakeTask ==
    /\ pc = "pool"
    /\ queue # << >>
    /\ WorkerFree
    /\ running' = running (+) SetToBag({ [url |-> Head(queue).url,
                                          path |-> Head(queue).path,
                                          attempt |-> 0, at |-> "get",
                                          timeout |-> image_timeout,
                                          http |-> 0] })
    /\ queue' = Tail(queue)
    /\ UNCHANGED << pc, input, links, crawl, image_details, detail_titles,
                    ended, files, handed, lastReq, served, summary, fetches,
                    naming >>

\* A retry loop that runs once too often
MayRetry_once_more(attempt) == attempt + 1 <= retries

\* Whether the loop of download_image runs again after a failed attempt
MayRetry(attempt) == attempt + 1 < retries

\* Lines 52-55: the except clause of an attempt and what follows it
AfterFailure(t, http) ==
    IF MayRetry(t.attempt)
    THEN /\ running' = (running (-) SetToBag({ t }))
                       (+) SetToBag({ [t EXCEPT !.attempt = t.attempt + 1,
                                                !.at = "get", !.http = http] })
         /\ ended' = ended
    ELSE /\ running' = running (-) SetToBag({ t })
         /\ ended' = ended (+) SetToBag({ [url |-> t.url, path |-> t.path,
                                           attempts |-> t.attempt + 1,
                                           timeout |-> t.timeout,
                                           http |-> http,
                                           result |-> "skipped"] })

\* Lines 45-47: session.get of an attempt, raise_for_status and, when the
\* response is a 200, open(save_path, "wb")
DownloadGet(t) ==
    /\ pc = "pool"
    /\ t.at = "get"
    /\ LET r == SessionGet(UrlScheme(t.url), ImageServer(t.url[Len(t.url)]),
                           t.timeout) IN
       /\ IF r.ok
          THEN /\ files' = OpenWb(files, t.path)
               /\ running' = (running (-) SetToBag({ t }))
                             (+) SetToBag({ [t EXCEPT !.at = "stream",
                                                      !.http = t.http + r.http] })
               /\ ended' = ended
          ELSE /\ AfterFailure(t, t.http + r.http)
               /\ files' = files
    /\ UNCHANGED << pc, input, links, crawl, image_details, detail_titles,
                    queue, handed, lastReq, served, summary, fetches, naming >>

\* Lines 48-51: the body is streamed to the file; the attempt ends with the
\* return of line 51 or with the exception of a broken stream
DownloadStream(t) ==
    /\ pc = "pool"
    /\ t.at = "stream"
    /\ LET body == Streamed(t.url, t.attempt) IN
       /\ files' = WriteAll(files, t.path, body.chunks)
       /\ IF body.complete
          THEN /\ running' = running (-) SetToBag({ t })
               /\ ended' = ended (+) SetToBag({ [url |-> t.url, path |-> t.path,
                                                 attempts |-> t.attempt + 1,
                                                 timeout |-> t.timeout,
                                                 http |-> t.http,
                                                 result |-> "written"] })
          ELSE AfterFailure(t, t.http)
    /\ UNCHANGED << pc, input, links, crawl, image_details, detail_titles,
                    queue, handed, lastReq, served, summary, fetches, naming >>

\* An executor that is left without waiting for its tasks
PoolIdle_nowait == TRUE

\* Every submitted tuple has been taken and every download_image returned
PoolIdle == queue = << >> /\ running = EmptyBag

\* Lines 105-106: the with block of the executor ends once the pool is idle;
\* the page loop goes on
PoolJoin ==
    /\ pc = "pool"
    /\ PoolIdle
    /\ NextAlbumPage
    /\ image_details' = << >>
    /\ detail_titles' = << >>
    /\ ended' = EmptyBag
    /\ UNCHANGED << queue, running >>
    /\ lastReq' = NoReq
    /\ UNCHANGED << input, links, seed, base_folder, cat_total, cat_page,
                    albums, album, link, album_folder, alb_total, files, handed,
                    served, summary, fetches, naming >>

----------------------------------------------------------------------------
(* The run *)

Next ==
    \/ LoadInput
    \/ FetchSeed
    \/ Finish
    \/ FetchCategoryPage
    \/ CategoryDone
    \/ FetchAlbum
    \/ AlbumsDone
    \/ FetchAlbumPage
    \/ AlbumDone
    \/ TakeTask
    \/ \E t \in BagToSet(running) : DownloadGet(t)
    \/ \E t \in BagToSet(running) : DownloadStream(t)
    \/ PoolJoin

Spec == Init /\ [][Next]_vars

----------------------------------------------------------------------------
(* The download stage alone: one album page's batch, from its submission   *)
(* to the executor (line 106) to the end of the with block                 *)

MaxBatch == 2       \* image cards on the page, drawn from AllCards

\* A page longer than the pool is wide, all of its cards alike
BulkPages ==
    { [i \in 1..(max_workers + 1) |-> c] :
        c \in { k \in AllCards : k.img /\ k.h3 /\ k.title = << "a" >>
                                  /\ k.src \in { Slashes \o << "o" >>,
                                                  Https \o Slashes \o << "c" >> } } }

PoolInit ==
    /\ pc = "pool"
    /\ input = "rows"
    /\ links = << Https \o Slashes \o << "h", "/", "c", " " >> >>
    /\ seed = 1
    /\ base_folder = BaseFolder(UnknownCategory)
    /\ cat_total = 1
    /\ cat_page = 1
    /\ albums = << [hasTitle |-> TRUE, title |-> << "a", "/", "b" >>,
                     hasHref |-> TRUE, href |-> << "/", "x" >>] >>
    /\ album = 1
    /\ link = AlbumLink(albums[1], Strip(links[1]))
    /\ album_folder = AlbumFolder(base_folder, AlbumTitle(albums[1]))
    /\ alb_total = MaxPages
    /\ page \in { 1, alb_total }
    /\ \E image_cards \in (SeqsUpTo(AllCards, MaxBatch) \ { << >> }) \cup BulkPages :
         /\ image_details = ImageDetails(image_cards, page, album_folder)
         /\ detail_titles =
               [i \in DOMAIN image_details |-> ValidCards(image_cards)[i].title]
         /\ served = Len(image_cards)
    /\ queue = image_details
    /\ running = EmptyBag
    /\ ended = EmptyBag
    /\ files = << >>
    /\ handed = SeqToBag([i \in DOMAIN image_details |-> image_details[i].path])
    /\ lastReq = Request("album_page", AlbumPageUrl(link, page), PageTimeout,
                         SessionGet(UrlScheme(link), "ok", PageTimeout))
    /\ summary = FALSE
    /\ cat_fetches = cat_page + 1
    /\ alb_fetches = page + 1
    /\ naming = NoNaming

PoolNext ==
    \/ TakeTask
    \/ \E t \in BagToSet(running) : DownloadGet(t)
    \/ \E t \in BagToSet(running) : DownloadStream(t)
    \/ PoolJoin

PoolSpec == PoolInit /\ [][PoolNext]_vars

----------------------------------------------------------------------------
(* The naming functions alone: sanitize_folder_name applied to a title and *)
(* to its own result, and the (url, path) tuple of one image card          *)

NamingInit ==
    /\ pc = "naming"
    /\ input = "rows"
    /\ links = << Https \o Slashes \o << "h", "/", "c" >> >>
    /\ seed = 1
    /\ base_folder = << >>
    /\ cat_total = 0
    /\ cat_page = 1
    /\ albums = << >>
    /\ album = 1
    /\ link = << >>
    /\ album_folder = << >>
    /\ alb_total = 0
    /\ page = 1
    /\ image_details = << >>
    /\ detail_titles = << >>
    /\ queue = << >>
    /\ running = EmptyBag
    /\ ended = EmptyBag
    /\ files = << >>
    /\ handed = EmptyBag
    /\ lastReq = NoReq
    /\ served = 0
    /\ summary = FALSE
    /\ cat_fetches = 0
    /\ alb_fetches = 0
    /\ \E in \in NamingInputs :
         naming = [step |-> "drawn", card |-> in.card, page |-> in.page,
                   crumb |-> in.crumb, anchor |-> in.anchor,
                   once |-> << >>, twice |-> << >>,
                   url |-> << >>, path |-> << >>]

run == << pc, input, links, crawl, pool, files, handed, lastReq, served,
          summary, fetches >>

\* Lines 11-13: sanitize_folder_name applied to the title
SanitizeOnce ==
    /\ naming.step = "drawn"
    /\ naming' = [naming EXCEPT !.step = "once",
                                !.once = sanitize_folder_name(naming.card.title)]
    /\ UNCHANGED run

\* Lines 11-13: sanitize_folder_name applied to what it returned
SanitizeTwice ==
    /\ naming.step = "once"
    /\ naming' = [naming EXCEPT !.step = "twice",
                                !.twice = sanitize_folder_name(naming.once)]
    /\ UNCHANGED run

\* Lines 143-144, 58 and 88-102: the folders of the category and the album,
\* and the (url, path) tuple of the card
BuildDetail ==
    /\ naming.step = "drawn"
    /\ LET folder == AlbumFolder(BaseFolder(get_category_title(naming.crumb)),
                                 AlbumTitle(naming.anchor))
           detail == ImageDetails(<< naming.card >>, naming.page, folder)[1] IN
       naming' = [naming EXCEPT !.step = "built", !.url = detail.url,
                                !.path = detail.path]
    /\ UNCHANGED run

NamingNext ==
    \/ SanitizeOnce
    \/ SanitizeTwice
    \/ BuildDetail

NamingSpec == NamingInit /\ [][NamingNext]_vars

----------------------------------------------------------------------------
(* Properties *)

Activations == BagToSet(running) \cup BagToSet(ended)

\* C1: an item whose every attempt failed leaves no file at its destination
\* path (the path being the item's alone).
C1_NoFileAfterFailure ==
    \A e \in BagToSet(ended) :
        (e.result = "skipped" /\ CopiesIn(e.path, handed) = 1) => ~Exists(e.path)

\* C2: no destination path is handed to the download stage twice in a run.
C2_PathsUnique ==
    \A p \in BagToSet(handed) : CopiesIn(p, handed) = 1

\* C3: two cards of one page with the same title and different images get
\* different paths, and no two workers have the same file open at once.
C3_SameTitleDistinctPaths ==
    /\ \A i, j \in DOMAIN image_details :
          (i # j /\ detail_titles[i] = detail_titles[j]
                 /\ image_details[i].url # image_details[j].url)
             => image_details[i].path # image_details[j].path
    /\ \A t, u \in BagToSet(running) :
          (t.at = "stream" /\ u.at = "stream" /\ t.url # u.url) => t.path # u.path

\* C4 as stated: no item is the target of more than 3 HTTP requests.
C4_AtMostThreeRequests ==
    \A t \in Activations : t.http <= retries

\* C4 as amended: download_image calls session.get at most 3 times per item,
\* again only after a failed attempt; an item is skipped after exactly 3
\* failed attempts and each tuple is given to download_image once; every
\* call may make up to retry_total + 1 HTTP requests.
C4_AtMostThreeAttempts ==
    /\ \A t \in BagToSet(running) :
          /\ t.attempt < retries
          /\ t.http <= (t.attempt + 1) * (retry_total + 1)
    /\ \A e \in BagToSet(ended) :
          /\ e.attempts <= retries
          /\ e.result = "skipped" => e.attempts = retries
          /\ e.http <= retries * (retry_total + 1)
    /\ pc = "pool" =>
          Len(queue) + BagCardinality(running) + BagCardinality(ended)
            = Len(image_details)

C4_Witness ==
    \E e \in BagToSet(ended) :
        e.result = "skipped" /\ e.attempts = retries /\ e.http > retries

\* C5: a failed item never ends the batch, the album or the run: the pool
\* is left only for the next page of the same album, with every item of the
\* batch attempted, and the run stops early for no reason but a seed row
\* that is no URL or an anchor without href.
C5_FailureIsolated ==
    [][ /\ pc = "pool" => pc' \in { "pool", "album_page" }
        /\ (pc = "pool" /\ pc' = "album_page") =>
              /\ page' = page + 1
              /\ album' = album /\ cat_page' = cat_page /\ seed' = seed
              /\ BagCardinality(ended) = Len(image_details)
              /\ \A e \in BagToSet(ended) : e.attempts >= 1
        /\ pc' = "crashed" => pc \in { "seed", "album" } ]_vars

C5_Witness ==
    /\ pc = "done"
    /\ summary
    /\ BagCardinality(handed) = 2
    /\ \E p \in DOMAIN files : Len(files[p]) = 1

\* C6: at most max_workers downloads are in progress at any time.
C6_BoundedWorkers == BagCardinality(running) <= max_workers

C6_Witness == BagCardinality(running) = max_workers /\ queue # << >>

\* C7: no document is fetched while a task of the current batch is queued
\* or running.
C7_BatchEndsBeforeFetch ==
    pc # "pool" => (queue = << >> /\ running = EmptyBag)

C7_Witness ==
    /\ pc = "album_page"
    /\ page = 2
    /\ page <= alb_total
    /\ BagCardinality(handed) = 2

\* C8: a failed fetch skips its unit alone and the crawl goes on with the
\* next sibling: next seed, next category page, next album, next album page;
\* nothing of the unit is dispatched.
C8_FailedUnitSkipped ==
    [][ lastReq'.result = "failed" =>
          /\ handed' = handed /\ queue' = << >> /\ running' = EmptyBag
          /\ lastReq'.kind = "seed" =>
                pc' = "seed" /\ seed' = seed + 1
          /\ lastReq'.kind = "cat_page" =>
                pc' = "cat_page" /\ cat_page' = cat_page + 1 /\ seed' = seed
          /\ lastReq'.kind = "album" =>
                /\ pc' = "album" /\ album' = album + 1
                /\ albums' = albums /\ cat_page' = cat_page /\ seed' = seed
          /\ lastReq'.kind = "album_page" =>
                /\ pc' = "album_page" /\ page' = page + 1
                /\ alb_total' = alb_total /\ album' = album
                /\ cat_page' = cat_page /\ seed' = seed ]_vars

C8_Witness ==
    /\ lastReq.result = "failed"
    /\ lastReq.kind = "album_page"
    /\ pc = "album_page"
    /\ page = 2
    /\ page <= alb_total

\* C9: every HTTP request carries a timeout and no request blocks the run.
C9_EveryRequestTimesOut ==
    /\ lastReq.kind # "none" => lastReq.timeout # NoTimeout
    /\ \A t \in Activations : t.timeout # NoTimeout
    /\ pc # "blocked"

\* C10: once the input table is loaded, nothing but a seed row that is no
\* URL ends the run before the final summary: in particular no missing
\* markup does.
C10_RunReachesSummary ==
    pc = "crashed" =>
        (seed <= Len(links) /\ ~HasDomain(Strip(links[seed])))

\* C11: when input.csv is missing or has no URL column, the run aborts: it
\* issues no request and prints no final summary.
C11_InputFailureAborts ==
    input \in { "missing", "nocolumn" } =>
        (~summary /\ pc # "done" /\ lastReq.kind = "none")

\* C12 as stated: a document fetch through the shared session makes at most
\* retry_total (5) HTTP requests.
C12_AtMostFiveRequests == lastReq.http <= retry_total

\* C12: a document fetch through the shared session makes at most
\* retry_total + 1 HTTP requests, the first and retry_total retries; a fetch
\* that made more than one made all of them and failed, and the orchestrator
\* goes on after it.
C12_AtMostSixRequests ==
    /\ lastReq.http <= retry_total + 1
    /\ lastReq.http > 1 =>
          /\ lastReq.http = retry_total + 1
          /\ lastReq.result = "failed"
          /\ pc \in { "seed", "cat_page", "album", "album_page" }

C12_Witness ==
    /\ lastReq.kind = "cat_page"
    /\ lastReq.http = retry_total + 1
    /\ lastReq.result = "failed"

\* C13: sanitize_folder_name applied to its own result returns that result,
\* for every title, those with leading or trailing tabs included.
C13_SanitizeIdempotent ==
    naming.step = "twice" => naming.twice = naming.once

C13_Witness ==
    /\ naming.step = "twice"
    /\ naming.card.title = << "\t", "a", "\t" >>
    /\ naming.once = << "_", "a", "_" >>

\* C14 as stated: the file of a card with title t on page p is named
\* str(p) + "_" + sanitize_folder_name(t) + ".jpg" and lies in
\* Images/<sanitised category title>/<sanitised album title>.
C14_NameIsPageAndSanitizedTitle ==
    naming.step = "built" =>
        naming.path =
            << Images,
               sanitize_folder_name(get_category_title(naming.crumb)),
               sanitize_folder_name(AlbumTitle(naming.anchor)),
               Str(naming.page) \o << "_" >>
                   \o sanitize_folder_name(naming.card.title) \o DotJpg >>

\* C14: the file of a card with title t on page p lies in
\* Images/<sanitised category title>/<sanitised album title> and is named
\* str(p) + "_" + t' + ".jpg", where t' is t with every character that is
\* not alphanumeric, space or underscore replaced by "_" and with its
\* trailing whitespace removed; leading spaces of t are kept.
C14_NameKeepsLeadingBlanks ==
    naming.step = "built" =>
        LET t == naming.card.title
            replaced == [i \in DOMAIN t |-> SanitizeChar(t[i])] IN
        naming.path =
            << Images,
               sanitize_folder_name(get_category_title(naming.crumb)),
               sanitize_folder_name(AlbumTitle(naming.anchor)),
               Str(naming.page) \o << "_" >> \o RStrip(replaced) \o DotJpg >>

C14_Witness ==
    /\ naming.step = "built"
    /\ naming.card.title = << " ", "a", " " >>
    /\ naming.path[Len(naming.path)] = << "1", "_", " ", "a" >> \o DotJpg

\* C15 as stated: a page request carries the page parameter only for a page
\* after the first; page 1 is requested at the bare category URL or album
\* link.
C15_PageParamOnlyAfterFirst ==
    /\ lastReq.kind = "cat_page" =>
          lastReq.url \in { Strip(links[seed]) }
              \cup { CategoryPageUrl(Strip(links[seed]), n) : n \in 2..MaxPages }
    /\ lastReq.kind = "album_page" =>
          lastReq.url \in { link }
              \cup { AlbumPageUrl(link, n) : n \in 2..MaxPages }

\* C15: the first fetch of a category or an album goes to the bare URL; every
\* request of a page loop, that of page 1 included, goes to the URL with
\* "?page=N" (category) or "&page=N" (album) appended.
C15_LoopRequestsCarryPage ==
    [][ /\ (pc = "seed" /\ lastReq'.kind = "seed") =>
              lastReq'.url = Strip(links[seed])
        /\ (pc = "album" /\ lastReq'.kind = "album") =>
              lastReq'.url = AlbumLink(albums[album], Strip(links[seed]))
        /\ (pc = "cat_page" /\ lastReq'.kind = "cat_page") =>
              lastReq'.url = Strip(links[seed])
                  \o << "?", "p", "a", "g", "e", "=" >> \o Str(cat_page)
        /\ (pc = "album_page" /\ lastReq'.kind = "album_page") =>
              lastReq'.url = link
                  \o << "&", "p", "a", "g", "e", "=" >> \o Str(page)
      ]_vars

C15_Witness ==
    /\ lastReq.kind = "cat_page"
    /\ lastReq.result = "ok"
    /\ lastReq.url = Strip(links[seed]) \o << "?", "p", "a", "g", "e", "=", "1" >>

\* C16: the page count that drives a page loop is at least 1, so that page 1
\* of every fetched category and album is processed.
C16_PageCountAtLeastOne ==
    /\ pc = "cat_page" => cat_total >= 1
    /\ pc \in { "album_page", "pool" } => alb_total >= 1

\* C17: the URL of the tuple, which download_image requests, is "https:"
\* followed by the card's URL when that begins with "//", and the card's URL
\* as it is otherwise.
C17_DoubleSlashGetsHttps ==
    naming.step = "built" =>
        LET src == naming.card.src IN
        IF Len(src) >= 2 /\ src[1] = "/" /\ src[2] = "/"
        THEN naming.url = << "h", "t", "t", "p", "s", ":" >> \o src
        ELSE naming.url = src

C17_Witness ==
    /\ naming.step = "built"
    /\ naming.card.src = << "/", "/", "u" >>
    /\ naming.url = << "h", "t", "t", "p", "s", ":", "/", "/", "u" >>

\* C18: the file name of a card is the file name of no card of another page
\* of the album, whatever the title of that card.
C18_PagesNeverShareAPath ==
    naming.step = "built" =>
        \A p \in 1..MaxPageNo, t \in ShortNames :
            p # naming.page =>
                PathJoin(SubSeq(naming.path, 1, Len(naming.path) - 1),
                         ImageName(p, t)) # naming.path

C18_Witness ==
    /\ naming.step = "built"
    /\ naming.page = MaxPageNo
    /\ naming.card.title = << "1", "_" >>

\* C19: an item is written by one successful attempt, after which no other
\* is made, and when the batch is over the file at its path holds the full
\* body of that attempt's response.
C19_FileHoldsFullBody ==
    /\ \A t \in Activations :
          ImageServer(t.url[Len(t.url)]) = "ok" =>
              (IF t \in BagToSet(running) THEN t.attempt = 0 ELSE t.attempts = 1)
    /\ PoolIdle =>
          \A e \in BagToSet(ended) :
              e.result = "written" =>
                  (Exists(e.path) /\ files[e.path] = Body(e.url))

\* C20: a category or album whose first fetch succeeded is fetched again as
\* page 1 of its loop; when its loop is over, total_pages + 1 page requests
\* have been issued for it; when the fetch of page 1 in the loop fails, the
\* loop goes on with page 2 and nothing of page 1 is processed.
C20_FirstPageFetchedTwice ==
    [][ /\ (pc = "seed" /\ pc' = "cat_page") =>
              (lastReq'.result = "ok" /\ cat_page' = 1 /\ cat_fetches' = 1)
        /\ (pc = "album" /\ pc' = "album_page") =>
              (lastReq'.result = "ok" /\ page' = 1 /\ alb_fetches' = 1)
        /\ (pc = "cat_page" /\ cat_page = 1 /\ cat_total >= 1) =>
              (lastReq'.kind = "cat_page" /\ cat_fetches' = 2)
        /\ (pc = "album_page" /\ page = 1 /\ alb_total >= 1) =>
              (lastReq'.kind = "album_page" /\ alb_fetches' = 2)
        /\ (pc' = "cat_page" /\ cat_page' > cat_total') =>
              cat_fetches' = cat_total' + 1
        /\ (pc' = "album_page" /\ page' > alb_total') =>
              alb_fetches' = alb_total' + 1
        /\ (pc = "cat_page" /\ cat_page = 1 /\ lastReq'.result = "failed") =>
              (pc' = "cat_page" /\ cat_page' = 2 /\ albums' = << >>)
        /\ (pc = "album_page" /\ page = 1 /\ lastReq'.result = "failed") =>
              (pc' = "album_page" /\ page' = 2 /\ handed' = handed
               /\ image_details' = << >>)
      ]_vars

C20_Witness ==
    /\ pc = "album_page"
    /\ lastReq.kind = "album_page"
    /\ lastReq.result = "failed"
    /\ page = 2
    /\ alb_fetches = 2

====
